---- MODULE Spec2Model ----
(***************************************************************************)
(* Model of the WAD tree root aggregate                                    *)
(* (src-tauri/src/core/wad/tree/mod.rs).                                   *)
(*                                                                         *)
(* WadTree::from_wad, resolve_chunk_path, set_selected_items, the          *)
(* WadTreeParent / WadTreeParentInternal / WadTreePathable impls for       *)
(* WadTree are translated from mod.rs.  The helpers of tree/utils.rs and   *)
(* the item types of tree/item.rs (add_item_to_parent, sort_parent_items,  *)
(* traverse_parent_items, find_parent_item, WadTreeItem) are not part of   *)
(* mod.rs; they are modelled from the design document (sections 3, 4.1 and *)
(* 4.2).                                                                   *)
(*                                                                         *)
(* Strings are sequences of one-character strings, so that split('/'),     *)
(* the "{:#0x}" rendering and the case-insensitive comparison are computed *)
(* rather than assumed.                                                    *)
(***************************************************************************)
EXTENDS Integers, Sequences, FiniteSets, TLC

VARIABLES
    chunks,      \* wad.chunks(): the chunk records, in iteration order
    hashtable,   \* hashtable.items(): path_hash -> path string
    pc,          \* "loop" (inside from_wad), "built" (Ok(tree)), "failed" (Err)
    idx,         \* position of from_wad's for loop in chunks
    tree,        \* the WadTree under construction / returned
    next_id,     \* source of fresh item identities (Uuid::new_v4)
    result,      \* what from_wad returned: "none" yet, [ok |-> TRUE] or an error
    log,         \* the results of the add_item_to_parent calls made by from_wad
    sort_runs,   \* how many times from_wad ran sort_parent_items
    extra_adds,  \* add_item calls made on the tree after from_wad returned it
    last         \* the last operation: its name, argument and return value

vars == <<chunks, hashtable, pc, idx, tree, next_id, result, log, sort_runs,
          extra_adds, last>>

----------------------------------------------------------------------------
(* Bounds of the model *)

MaxChunks == 3
MaxSelected == 2
MaxExtraAdds == 1
MaxTreeChunks == 2

----------------------------------------------------------------------------
(* Characters and strings *)

\* ASCII codes of the characters that occur in the modelled paths.
Code(c) ==
    CASE c = "/" -> 47
      [] c = "0" -> 48 [] c = "1" -> 49 [] c = "2" -> 50 [] c = "3" -> 51
      [] c = "4" -> 52 [] c = "5" -> 53 [] c = "6" -> 54 [] c = "7" -> 55
      [] c = "8" -> 56 [] c = "9" -> 57
      [] c = "A" -> 65 [] c = "B" -> 66 [] c = "C" -> 67
      [] c = "a" -> 97 [] c = "b" -> 98 [] c = "c" -> 99 [] c = "d" -> 100
      [] c = "e" -> 101 [] c = "f" -> 102 [] c = "x" -> 120

\* char::to_lowercase on ASCII, as a code.
LowerCode(c) == IF Code(c) >= 65 /\ Code(c) <= 90 THEN Code(c) + 32 ELSE Code(c)

HexDigits == <<"0","1","2","3","4","5","6","7","8","9","a","b","c","d","e","f">>

RECURSIVE HexDigitsOf(_)
HexDigitsOf(n) ==
    IF n < 16 THEN <<HexDigits[n + 1]>>
    ELSE HexDigitsOf(n \div 16) \o <<HexDigits[(n % 16) + 1]>>

\* The rendering "{:x}" would give: the digits without the "0x" prefix.
FormatHex_NoPrefix(n) == HexDigitsOf(n)

\* format!("{:#0x}", path_hash): "0x" and the lowercase digits, no width given.
FormatHex(n) == <<"0", "x">> \o HexDigitsOf(n)

\* str::split('/') collected: "" gives one empty component, "a/" gives "a", "".
RECURSIVE SplitFrom(_, _, _)
SplitFrom(s, i, cur) ==
    IF i > Len(s) THEN <<cur>>
    ELSE IF s[i] = "/" THEN <<cur>> \o SplitFrom(s, i + 1, <<>>)
    ELSE SplitFrom(s, i + 1, Append(cur, s[i]))

\* A split on a separator that never occurs: the whole string, one component.
Split_NoSeparator(s) == <<s>>

Split(s) == SplitFrom(s, 1, <<>>)

----------------------------------------------------------------------------
(* Inputs *)

Hashes == {1, 16, 26, 256}

Paths == {
    <<"a","/","b">>,
    <<"a","/","b","/","c">>,
    <<"a","/","B">>,
    <<"B","/","a">>,
    <<"c">>,
    <<"a","/">>,
    <<"0","x","1","a">> }

WadId == 7
WadPath == <<"w">>

WadChunk(h) == [path_hash |-> h]

----------------------------------------------------------------------------
(* Item model (tree/item.rs, from the design document section 3) *)

\* WadTreeItemKey: derived from the item's name; one key per name.
WadTreeItemKey(name) == name

\* Results.  WadTreeError::ItemCreationFailure is declared as well; the design
\* names no input that yields it, and no operation below returns it.
Ok == [ok |-> TRUE]
ExistingFile(p) == [err |-> "ExistingFile", file_path |-> p]
InvalidItemName(h) == [err |-> "InvalidItemName", chunk_path |-> h]
IsOk(r) == "ok" \in DOMAIN r

\* An item's path: the '/'-joined names from the top level down to itself
\* (design, section 3).  The root reports is_root() and the empty path, and
\* a child of the root gets no leading separator.
ItemPath(parent_path, is_root, name) ==
    IF is_root THEN name ELSE parent_path \o <<"/">> \o name

WadTreeFile(id, name, path, chunk) ==
    [kind |-> "File", id |-> id, name |-> name, path |-> path,
     path_hash |-> chunk.path_hash]

WadTreeFolder(id, name, path) ==
    [kind |-> "Folder", id |-> id, name |-> name, path |-> path, items |-> <<>>]

\* IndexMap: a sequence of [key, item] entries in map order.
IndexOf(items, key) ==
    IF \E i \in 1..Len(items) : items[i].key = key
    THEN CHOOSE i \in 1..Len(items) : items[i].key = key
    ELSE 0

\* IndexMap::insert: a new key goes last, an existing key keeps its position
\* and gets the new value.
MapInsert(items, key, item) ==
    LET i == IndexOf(items, key) IN
    IF i = 0 THEN Append(items, [key |-> key, item |-> item])
    ELSE [items EXCEPT ![i] = [key |-> key, item |-> item]]

----------------------------------------------------------------------------
(* Tree-building utilities (tree/utils.rs, from the design document 4.2) *)

\* Walks the path components below one parent.  Returns the outcome, the
\* parent's child mapping afterwards and the identity counter.
RECURSIVE add_item_to_parent(_, _, _, _, _, _)
add_item_to_parent(items, parent_path, is_root, comps, chunk, nid) ==
    LET component == Head(comps)
        key == WadTreeItemKey(component)
        path == ItemPath(parent_path, is_root, component)
        i == IndexOf(items, key)
    IN
    IF Len(comps) = 1
    THEN \* attach leaf
         IF component = <<>>
         THEN [res |-> InvalidItemName(chunk.path_hash), items |-> items, nid |-> nid]
         ELSE [res |-> Ok,
               items |-> MapInsert(items, key, WadTreeFile(nid, component, path, chunk)),
               nid |-> nid + 1]
    ELSE \* the component names a folder
         IF i # 0 /\ items[i].item.kind = "File"
         THEN [res |-> ExistingFile(items[i].item.path), items |-> items, nid |-> nid]
         ELSE LET created == (i = 0)
                  withFolder == IF created
                                THEN MapInsert(items, key, WadTreeFolder(nid, component, path))
                                ELSE items
                  j == IndexOf(withFolder, key)
                  folder == withFolder[j].item
                  sub == add_item_to_parent(folder.items, folder.path, FALSE,
                                            Tail(comps), chunk,
                                            IF created THEN nid + 1 ELSE nid)
              IN [res |-> sub.res,
                  items |-> [withFolder EXCEPT ![j].item.items = sub.items],
                  nid |-> sub.nid]

\* Lexicographic comparison of two names by lowercased character.
RECURSIVE NameLess(_, _)
NameLess(a, b) ==
    IF b = <<>> THEN FALSE
    ELSE IF a = <<>> THEN TRUE
    ELSE IF LowerCode(Head(a)) # LowerCode(Head(b))
         THEN LowerCode(Head(a)) < LowerCode(Head(b))
    ELSE NameLess(Tail(a), Tail(b))

\* The ordering policy: folders before files, then names case-insensitively.
ItemLess(x, y) ==
    IF x.kind # y.kind THEN x.kind = "Folder"
    ELSE NameLess(x.name, y.name)

\* An insertion that puts an entry before the entries it compares equal to.
RECURSIVE InsertSorted_Unstable(_, _)
InsertSorted_Unstable(sorted, e) ==
    IF sorted = <<>> THEN <<e>>
    ELSE IF ~ItemLess(Head(sorted).item, e.item) THEN <<e>> \o sorted
    ELSE <<Head(sorted)>> \o InsertSorted_Unstable(Tail(sorted), e)

\* Stable insertion of one entry into an ordered sequence of entries.
RECURSIVE InsertSorted(_, _)
InsertSorted(sorted, e) ==
    IF sorted = <<>> THEN <<e>>
    ELSE IF ItemLess(e.item, Head(sorted).item) THEN <<e>> \o sorted
    ELSE <<Head(sorted)>> \o InsertSorted(Tail(sorted), e)

RECURSIVE SortEntries(_, _)
SortEntries(done, rest) ==
    IF rest = <<>> THEN done
    ELSE SortEntries(InsertSorted(done, Head(rest)), Tail(rest))

RECURSIVE SortFolders(_)
RECURSIVE sort_parent_items(_)
\* The sort pass: orders a parent's children and recurses into every folder.
sort_parent_items(items) == SortFolders(SortEntries(<<>>, items))

SortFolders(entries) ==
    IF entries = <<>> THEN <<>>
    ELSE LET e == Head(entries) IN
         <<IF e.item.kind = "Folder"
           THEN [e EXCEPT !.item.items = sort_parent_items(e.item.items)]
           ELSE e>> \o SortFolders(Tail(entries))

\* Depth-first, pre-order: each child, then (for a folder) its descendants.
RECURSIVE traverse_parent_items(_)
traverse_parent_items(items) ==
    IF items = <<>> THEN <<>>
    ELSE LET it == Head(items).item IN
         <<it>> \o (IF it.kind = "Folder" THEN traverse_parent_items(it.items) ELSE <<>>)
              \o traverse_parent_items(Tail(items))

\* The conditions a caller can pass to find_item.
Satisfies(cond, it) ==
    CASE cond.by = "kind" -> it.kind = cond.val
      [] cond.by = "name" -> it.name = cond.val
      [] cond.by = "path_hash" -> it.kind = "File" /\ it.path_hash = cond.val
      [] OTHER -> FALSE

None == [none |-> TRUE]
Some(it) == [some |-> it]

\* Depth-first search that stops at the first item satisfying the condition.
RECURSIVE find_parent_item(_, _)
find_parent_item(items, cond) ==
    IF items = <<>> THEN None
    ELSE LET it == Head(items).item IN
         IF Satisfies(cond, it) THEN Some(it)
         ELSE LET below == IF it.kind = "Folder"
                           THEN find_parent_item(it.items, cond)
                           ELSE None
              IN IF below # None THEN below
                 ELSE find_parent_item(Tail(items), cond)

----------------------------------------------------------------------------
(* WadTree (tree/mod.rs) *)

\* WadTreePathable for WadTree: the root's fixed sentinel values.
RootId == 0
RootName == <<>>
RootPath == <<>>

\* WadTreeParent for WadTree::is_root
RootIsRoot == TRUE

\* The tree from_wad starts from: no items, nothing selected.
NewWadTree(wad_id, wad_path) ==
    [wad_id |-> wad_id, wad_path |-> wad_path, items |-> <<>>,
     selected_items |-> <<>>]

\* The value of the local `tree` once from_wad has returned an error.
NoTree == [dropped |-> TRUE]

\* A resolution that never consults the table.
resolve_chunk_path_NoLookup(path_hash, table) == FormatHex(path_hash)

resolve_chunk_path(path_hash, table) ==
    IF path_hash \in DOMAIN table THEN table[path_hash] ELSE FormatHex(path_hash)

\* An add_item that builds the path in a new, empty child mapping.
add_item_FreshMap(t, path_components, chunk, nid) ==
    add_item_to_parent(<<>>, RootPath, RootIsRoot, path_components, chunk, nid)

\* WadTreeParentInternal for WadTree::add_item
add_item(t, path_components, chunk, nid) ==
    add_item_to_parent(t.items, RootPath, RootIsRoot, path_components, chunk, nid)

\* A traversal of the root's own children only.
RECURSIVE TopLevel(_)
TopLevel(items) ==
    IF items = <<>> THEN <<>> ELSE <<Head(items).item>> \o TopLevel(Tail(items))

traverse_items_TopLevel(t) == TopLevel(t.items)

\* WadTreeParent for WadTree::traverse_items: the items the callback receives.
traverse_items(t) == traverse_parent_items(t.items)

\* WadTreeParent for WadTree::find_item
find_item(t, cond) == find_parent_item(t.items, cond)

\* A set_selected_items that adds to the selection instead of replacing it.
set_selected_items_Extend(t, selected_items) ==
    [t EXCEPT !.selected_items = t.selected_items \o selected_items]

set_selected_items(t, selected_items) ==
    [t EXCEPT !.selected_items = selected_items]

----------------------------------------------------------------------------
(* Initial states *)

\* Sequences without repetition over a set, up to a length: wad.chunks() is a
\* map keyed by path_hash, so no two chunks share a hash.
RECURSIVE DistinctSeqs(_, _)
DistinctSeqs(S, n) ==
    IF n = 0 THEN {<<>>}
    ELSE LET shorter == DistinctSeqs(S, n - 1)
             longer == {Append(q, x) : q \in shorter, x \in S}
         IN shorter \cup
            {q \in longer : \A i, j \in 1..Len(q) : i # j => q[i] # q[j]}

SeqHashes(cs) == {cs[i].path_hash : i \in 1..Len(cs)}

\* from_wad reads the table only at the hashes of its chunks, so a table is
\* given by the entries it has for those.
TablesFor(cs) ==
    UNION {[D -> Paths] : D \in SUBSET SeqHashes(cs)}

InitWith(n) ==
    /\ chunks \in {[i \in 1..Len(q) |-> WadChunk(q[i])] : q \in DistinctSeqs(Hashes, n)}
    /\ hashtable \in TablesFor(chunks)
    /\ pc = "loop"
    /\ idx = 1
    /\ tree = NewWadTree(WadId, WadPath)
    /\ next_id = 1
    /\ result = "none"
    /\ log = <<>>
    /\ sort_runs = 0
    /\ extra_adds = 0
    /\ last = [op |-> "from_wad"]

Init == InitWith(MaxChunks)

InitTree == InitWith(MaxTreeChunks)

----------------------------------------------------------------------------
(* from_wad *)

\* A loop that skips a chunk whose addition failed and goes on.
FromWadAddChunk_Continue ==
    /\ pc = "loop"
    /\ idx <= Len(chunks)
    /\ LET chunk == chunks[idx]
           path == resolve_chunk_path(chunk.path_hash, hashtable)
           r == add_item_to_parent(tree.items, RootPath, RootIsRoot, Split(path),
                                   chunk, next_id)
       IN /\ log' = Append(log, r.res)
          /\ next_id' = r.nid
          /\ tree' = [tree EXCEPT !.items = r.items]
          /\ idx' = idx + 1
          /\ UNCHANGED <<pc, result>>
    /\ UNCHANGED <<chunks, hashtable, sort_runs, extra_adds, last>>

\* One iteration of the for loop: resolve, split, add; an error returns.
FromWadAddChunk ==
    /\ pc = "loop"
    /\ idx <= Len(chunks)
    /\ LET chunk == chunks[idx]
           path == resolve_chunk_path(chunk.path_hash, hashtable)
           r == add_item_to_parent(tree.items, RootPath, RootIsRoot, Split(path),
                                   chunk, next_id)
       IN /\ log' = Append(log, r.res)
          /\ next_id' = r.nid
          /\ IF IsOk(r.res)
             THEN /\ tree' = [tree EXCEPT !.items = r.items]
                  /\ idx' = idx + 1
                  /\ UNCHANGED <<pc, result>>
             ELSE /\ tree' = NoTree
                  /\ pc' = "failed"
                  /\ result' = r.res
                  /\ UNCHANGED idx
    /\ UNCHANGED <<chunks, hashtable, sort_runs, extra_adds, last>>

\* A loop that ends one chunk early.
FromWadReturn_Early ==
    /\ pc = "loop"
    /\ idx >= Len(chunks)
    /\ tree' = [tree EXCEPT !.items = sort_parent_items(tree.items)]
    /\ sort_runs' = sort_runs + 1
    /\ pc' = "built"
    /\ result' = Ok
    /\ UNCHANGED <<chunks, hashtable, idx, next_id, log, extra_adds, last>>

\* A return without the sort pass.
FromWadReturn_NoSort ==
    /\ pc = "loop"
    /\ idx > Len(chunks)
    /\ pc' = "built"
    /\ result' = Ok
    /\ UNCHANGED <<chunks, hashtable, idx, tree, next_id, log, sort_runs,
                   extra_adds, last>>

\* After the last chunk: the sort pass, then Ok(tree).
FromWadReturn ==
    /\ pc = "loop"
    /\ idx > Len(chunks)
    /\ tree' = [tree EXCEPT !.items = sort_parent_items(tree.items)]
    /\ sort_runs' = sort_runs + 1
    /\ pc' = "built"
    /\ result' = Ok
    /\ UNCHANGED <<chunks, hashtable, idx, next_id, log, extra_adds, last>>

Next == FromWadAddChunk \/ FromWadReturn

Spec == Init /\ [][Next]_vars

----------------------------------------------------------------------------
(* Operations on a tree from_wad returned *)

\* The paths whose components, and the hashes whose chunks, a caller hands to
\* add_item.
AddPaths == {<<"a","/","b">>, <<"a","/","b","/","c">>, <<"a","/","B">>, <<"a","/">>}
AddHashes == {1, 256}

AddItem ==
    /\ pc = "built"
    /\ extra_adds < MaxExtraAdds
    /\ \E p \in AddPaths, h \in AddHashes :
          LET r == add_item(tree, Split(p), WadChunk(h), next_id) IN
          /\ tree' = [tree EXCEPT !.items = r.items]
          /\ next_id' = r.nid
          /\ last' = [op |-> "add_item", arg |-> [path |-> p, path_hash |-> h],
                      ret |-> r.res]
    /\ extra_adds' = extra_adds + 1
    /\ UNCHANGED <<chunks, hashtable, pc, idx, result, log, sort_runs>>

\* The keys a caller may select; <<"z">> names no item.
SelectableKeys == {WadTreeItemKey(<<"a">>), WadTreeItemKey(<<"0","x","1">>),
                   WadTreeItemKey(<<"z">>)}

Selections == UNION {[1..n -> SelectableKeys] : n \in 0..MaxSelected}

SetSelectedItems ==
    /\ pc = "built"
    /\ \E keys \in Selections :
          /\ tree' = set_selected_items(tree, keys)
          /\ last' = [op |-> "set_selected_items", arg |-> keys]
    /\ UNCHANGED <<chunks, hashtable, pc, idx, next_id, result, log, sort_runs,
                   extra_adds>>

TraverseItems ==
    /\ pc = "built"
    /\ last' = [op |-> "traverse_items", ret |-> traverse_items(tree)]
    /\ UNCHANGED <<chunks, hashtable, pc, idx, tree, next_id, result, log,
                   sort_runs, extra_adds>>

Conditions ==
    {[by |-> "kind", val |-> "File"], [by |-> "kind", val |-> "Folder"],
     [by |-> "name", val |-> <<"b">>], [by |-> "name", val |-> <<"c">>],
     [by |-> "name", val |-> <<"z">>]}
    \cup {[by |-> "path_hash", val |-> h] : h \in Hashes}

FindItem ==
    /\ pc = "built"
    /\ \E cond \in Conditions :
          last' = [op |-> "find_item", arg |-> cond, ret |-> find_item(tree, cond)]
    /\ UNCHANGED <<chunks, hashtable, pc, idx, tree, next_id, result, log,
                   sort_runs, extra_adds>>

NextAdd == FromWadAddChunk \/ FromWadReturn \/ AddItem
SpecAdd == InitTree /\ [][NextAdd]_vars

NextSel == FromWadAddChunk \/ FromWadReturn \/ SetSelectedItems
SpecSel == InitTree /\ [][NextSel]_vars

NextWalk == FromWadAddChunk \/ FromWadReturn \/ TraverseItems \/ FindItem
SpecWalk == Init /\ [][NextWalk]_vars

----------------------------------------------------------------------------
(* Vocabulary of the properties, defined apart from the operations above *)

Returned == pc \in {"built", "failed"}

\* The k-th smallest element of a set of integers.
KthSmallest(S, k) == CHOOSE x \in S : Cardinality({y \in S : y < x}) = k - 1

\* The '/'-separated components of a string, by the positions of its slashes.
Components(s) ==
    LET seps == {i \in 1..Len(s) : s[i] = "/"}
        starts == {0} \cup seps
        ends == seps \cup {Len(s) + 1}
    IN [k \in 1..(Cardinality(seps) + 1) |->
           SubSeq(s, KthSmallest(starts, k) + 1, KthSmallest(ends, k) - 1)]

\* The number a string of lowercase hexadecimal digits denotes; -1 if it is
\* not such a string.
HexDigitValue(c) ==
    CASE c = "0" -> 0 [] c = "1" -> 1 [] c = "2" -> 2 [] c = "3" -> 3
      [] c = "4" -> 4 [] c = "5" -> 5 [] c = "6" -> 6 [] c = "7" -> 7
      [] c = "8" -> 8 [] c = "9" -> 9 [] c = "a" -> 10 [] c = "b" -> 11
      [] c = "c" -> 12 [] c = "d" -> 13 [] c = "e" -> 14 [] c = "f" -> 15
      [] OTHER -> -1

RECURSIVE HexValue(_)
HexValue(ds) ==
    IF ds = <<>> THEN 0
    ELSE LET d == HexDigitValue(ds[Len(ds)])
             rest == HexValue(SubSeq(ds, 1, Len(ds) - 1))
         IN IF d < 0 \/ rest < 0 THEN -1 ELSE 16 * rest + d

\* s is "0x" followed by lowercase hexadecimal digits that denote h.
IsHexRendering(s, h) ==
    /\ Len(s) >= 3
    /\ s[1] = "0" /\ s[2] = "x"
    /\ HexValue(SubSeq(s, 3, Len(s))) = h

\* The path string the design gives chunk number i.
Unresolved(h) == h \notin DOMAIN hashtable
TablePath(i, p) ==
    /\ chunks[i].path_hash \in DOMAIN hashtable
    /\ hashtable[chunks[i].path_hash] = p

\* Every item below a parent, at any depth.
RECURSIVE AllItems(_)
AllItems(items) ==
    UNION {{items[i].item} \cup
           (IF items[i].item.kind = "Folder" THEN AllItems(items[i].item.items) ELSE {})
           : i \in 1..Len(items)}

FilesOf(items) == {it \in AllItems(items) : it.kind = "File"}
FoldersOf(items) == {it \in AllItems(items) : it.kind = "Folder"}

\* Every child collection of the tree: the root's and each folder's.
ChildCollections(items) == {items} \cup {f.items : f \in FoldersOf(items)}

\* Looks up each component in turn, through folders only.
RECURSIVE Walk(_, _)
Walk(items, comps) ==
    LET hits == {i \in 1..Len(items) : items[i].key = WadTreeItemKey(Head(comps))} IN
    IF comps = <<>> \/ hits = {} THEN None
    ELSE LET it == items[CHOOSE i \in hits : TRUE].item IN
         IF Len(comps) = 1 THEN Some(it)
         ELSE IF it.kind = "Folder" THEN Walk(it.items, Tail(comps))
         ELSE None

\* a <= b comparing lowercased characters lexicographically.
LowerLeq(a, b) ==
    LET n == IF Len(a) < Len(b) THEN Len(a) ELSE Len(b)
        diff == {i \in 1..n : LowerCode(a[i]) # LowerCode(b[i])}
    IN IF diff = {} THEN Len(a) <= Len(b)
       ELSE LET d == KthSmallest(diff, 1) IN LowerCode(a[d]) < LowerCode(b[d])

\* One child collection obeys the ordering policy.
Ordered(items) ==
    \A i, j \in 1..Len(items) :
        i < j =>
            /\ ~(items[i].item.kind = "File" /\ items[j].item.kind = "Folder")
            /\ (items[i].item.kind = items[j].item.kind
                  => LowerLeq(items[i].item.name, items[j].item.name))

\* The last result from_wad got from add_item_to_parent.
LastLog == log[Len(log)]

\* This step is one iteration of from_wad's loop.
AddStep == Len(log') = Len(log) + 1

----------------------------------------------------------------------------
(* C1: one File node per chunk *)

TableInjective ==
    \A h1, h2 \in DOMAIN hashtable : h1 # h2 => hashtable[h1] # hashtable[h2]

\* Every chunk has exactly one File node carrying its hash, and every File
\* node carries the hash of a chunk.
OneFilePerChunk ==
    /\ \A i \in 1..Len(chunks) :
          Cardinality({f \in FilesOf(tree.items) : f.path_hash = chunks[i].path_hash}) = 1
    /\ \A f \in FilesOf(tree.items) :
          \E i \in 1..Len(chunks) : chunks[i].path_hash = f.path_hash

\* The path string of chunk i: its table entry, else the hex rendering.
ExpectedPath(i) ==
    IF chunks[i].path_hash \in DOMAIN hashtable
    THEN hashtable[chunks[i].path_hash]
    ELSE FormatHex(chunks[i].path_hash)

ProperPrefix(a, b) == Len(a) < Len(b) /\ SubSeq(b, 1, Len(a)) = a

\* The chunks' path strings are pairwise distinct, have no empty component,
\* and none continues another below one of its '/' boundaries.
PathsClean ==
    /\ \A i \in 1..Len(chunks) :
          \A k \in DOMAIN Components(ExpectedPath(i)) :
              Components(ExpectedPath(i))[k] # <<>>
    /\ \A i, j \in 1..Len(chunks) :
          i # j => /\ ExpectedPath(i) # ExpectedPath(j)
                   /\ ~ProperPrefix(Components(ExpectedPath(i)),
                                    Components(ExpectedPath(j)))

----------------------------------------------------------------------------
(* C2: conflict detection *)

PathAB == <<"a","/","b">>
PathABC == <<"a","/","b","/","c">>

\* The File that blocks the path of chunk i in the tree as it is: some
\* non-final component names a key that maps to a File in its parent.
Blockers(items, comps) ==
    {w.some : w \in {Walk(items, SubSeq(comps, 1, n)) : n \in 1..(Len(comps) - 1)}
                    \ {None}}
BlockingFiles(items, comps) == {f \in Blockers(items, comps) : f.kind = "File"}

\* C2: (a) once from_wad has processed a chunk the table resolves to "a/b"
\* and then reaches a later chunk the table resolves to "a/b/c", it returns
\* Err(ExistingFile) with file_path "a/b"; (b) in every iteration, if a
\* non-final component of the chunk's path names a key that maps to a File in
\* its parent, the iteration fails with ExistingFile carrying that File's path.
C2_ConflictDetection ==
    /\ [](\A i, j \in 1..Len(chunks) :
             (i < j /\ TablePath(i, PathAB) /\ TablePath(j, PathABC) /\ Len(log) >= j)
                => /\ pc = "failed"
                   /\ Len(log) = j
                   /\ result = ExistingFile(PathAB))
    /\ [][(AddStep /\ pc = "loop") =>
             \A f \in BlockingFiles(tree.items, Components(ExpectedPath(idx))) :
                 /\ log'[Len(log')] = ExistingFile(f.path)
                 /\ pc' = "failed"
                 /\ result' = ExistingFile(f.path)]_vars

C2_Witness ==
    /\ pc = "failed"
    /\ result = ExistingFile(PathAB)
    /\ \E i, j \in 1..Len(chunks) :
          i < j /\ TablePath(i, PathAB) /\ TablePath(j, PathABC) /\ Len(log) = j

----------------------------------------------------------------------------
(* C3: fail-fast *)

\* C3: from_wad returns an error exactly at the first chunk whose addition
\* fails: every earlier chunk was added without error, no later chunk was
\* processed, the sort pass did not run, the error returned is that chunk's,
\* and no tree is returned; Ok(tree) is returned only after every chunk was
\* added without error.
C3_FailFast ==
    /\ pc = "failed" =>
          /\ Len(log) >= 1
          /\ Len(log) = idx
          /\ ~IsOk(LastLog)
          /\ \A k \in 1..(Len(log) - 1) : IsOk(log[k])
          /\ result = LastLog
          /\ sort_runs = 0
          /\ tree = NoTree
    /\ pc = "built" =>
          /\ Len(log) = Len(chunks)
          /\ \A k \in 1..Len(log) : IsOk(log[k])
          /\ result = Ok
          /\ tree # NoTree

C3_Witness ==
    /\ pc = "failed"
    /\ Len(log) = 2
    /\ Len(chunks) = 3
    /\ result.err = "InvalidItemName"
    /\ result.chunk_path = chunks[2].path_hash

----------------------------------------------------------------------------
(* C4: hash fallback *)

RootFiles(items) == {items[i].item : i \in {k \in 1..Len(items) : items[k].item.kind = "File"}}

\* C4: an iteration of from_wad on a chunk whose hash the table does not have
\* never fails; afterwards the root maps the key of that chunk's name to a
\* File whose name and path are "0x" and the lowercase hex digits of the
\* hash, without '/', and whose path_hash is the hash; and it replaces no
\* root File of another hash the table does not have.
C4_HashFallback ==
    [][(AddStep /\ pc = "loop" /\ Unresolved(chunks[idx].path_hash)) =>
          LET h == chunks[idx].path_hash IN
          /\ IsOk(log'[Len(log')])
          /\ pc' = "loop"
          /\ \E f \in RootFiles(tree'.items) :
                /\ f.path_hash = h
                /\ IsHexRendering(f.name, h)
                /\ \A k \in 1..Len(f.name) : f.name[k] # "/"
                /\ f.path = f.name
                /\ Walk(tree'.items, <<f.name>>) = Some(f)
          /\ \A g \in RootFiles(tree.items) :
                (g.path_hash # h /\ Unresolved(g.path_hash))
                   => g \in RootFiles(tree'.items)]_vars

C4_Witness ==
    /\ pc = "built"
    /\ \E f, g \in RootFiles(tree.items) :
          /\ f.path_hash = 26 /\ Unresolved(26) /\ f.name = <<"0","x","1","a">>
          /\ g.path_hash = 256 /\ Unresolved(256) /\ g.name = <<"0","x","1","0","0">>

----------------------------------------------------------------------------
(* C5: path round trip *)

\* C5: in a tree from_wad returned, looking up the '/'-separated components
\* of a File's path one after the other from the root, through folders, ends
\* at that File.
C5_PathRoundTrip ==
    pc = "built" =>
        \A f \in FilesOf(tree.items) : Walk(tree.items, Components(f.path)) = Some(f)

C5_Witness ==
    /\ pc = "built"
    /\ \E f \in FilesOf(tree.items) :
          /\ Len(Components(f.path)) = 3
          /\ Walk(tree.items, Components(f.path)) = Some(f)
    /\ \E f \in FilesOf(tree.items) : Len(Components(f.path)) = 1

----------------------------------------------------------------------------
(* C6: ordering law *)

\* C6: in a tree from_wad returned, the root's children and every folder's
\* children have all folders before all files and, within each kind, names
\* non-decreasing case-insensitively; the sort pass ran exactly once, after
\* the last chunk was added.
C6_OrderingLaw ==
    pc = "built" =>
        /\ \A c \in ChildCollections(tree.items) : Ordered(c)
        /\ sort_runs = 1
        /\ Len(log) = Len(chunks)

\* A tree the sort pass had to reorder: a root folder added after a root file.
C6_Witness ==
    /\ pc = "built"
    /\ Len(tree.items) >= 2
    /\ tree.items[1].item.kind = "Folder"
    /\ tree.items[Len(tree.items)].item.kind = "File"
    /\ tree.items[1].item.id > tree.items[Len(tree.items)].item.id

----------------------------------------------------------------------------
(* C9: the sort pass is idempotent and only reorders *)

\* A child collection without its order: keys, items and, below folders, the
\* same of their children.
RECURSIVE Content(_)
Content(items) ==
    {[key |-> items[i].key,
      item |-> IF items[i].item.kind = "Folder"
               THEN [items[i].item EXCEPT !.items = Content(items[i].item.items)]
               ELSE items[i].item] : i \in 1..Len(items)}

----------------------------------------------------------------------------
(* C7: key uniqueness, merging into existing folders *)

UniqueKeys(items) ==
    \A i, j \in 1..Len(items) : i # j => items[i].key # items[j].key

KeysOf(items) == {items[i].key : i \in 1..Len(items)}

\* The folder the components lead to before the step is still there after
\* it: same identity, name and path, every key it had, and every child the
\* added path does not go through unchanged.
FolderKept(before, after, comps, n) ==
    LET w == Walk(before, SubSeq(comps, 1, n))
        v == Walk(after, SubSeq(comps, 1, n))
    IN (w # None /\ w.some.kind = "Folder") =>
          /\ v # None
          /\ v.some.kind = "Folder"
          /\ v.some.id = w.some.id
          /\ v.some.name = w.some.name
          /\ v.some.path = w.some.path
          /\ KeysOf(w.some.items) \subseteq KeysOf(v.some.items)
          /\ \A i \in 1..Len(w.some.items) :
                w.some.items[i].key # WadTreeItemKey(comps[n + 1])
                   => v.some.items[i] = w.some.items[i]

FoldersKept(before, after, comps) ==
    /\ \A n \in 1..(Len(comps) - 1) : FolderKept(before, after, comps, n)
    /\ \A i \in 1..Len(before) :
          before[i].key # WadTreeItemKey(comps[1])
             => (i <= Len(after) /\ after[i] = before[i])

----------------------------------------------------------------------------
(* C8: selection round trip *)

\* C8: a tree from_wad builds has an empty selection until set_selected_items
\* is called; set_selected_items makes the selection the submitted sequence
\* and leaves items, wad_id and wad_path as they were.
C8_SelectionRoundTrip ==
    /\ []((tree # NoTree /\ last.op = "from_wad") => tree.selected_items = <<>>)
    /\ [][(last'.op = "set_selected_items") =>
             /\ tree'.selected_items = last'.arg
             /\ tree'.items = tree.items
             /\ tree'.wad_id = tree.wad_id
             /\ tree'.wad_path = tree.wad_path]_vars

\* A submitted sequence that repeats a key naming no item, read back.
C8_Witness ==
    /\ last.op = "set_selected_items"
    /\ last.arg = <<WadTreeItemKey(<<"z">>), WadTreeItemKey(<<"z">>)>>
    /\ tree.selected_items = <<WadTreeItemKey(<<"z">>), WadTreeItemKey(<<"z">>)>>
    /\ tree.items # <<>>
    /\ Walk(tree.items, <<<<"z">>>>) = None

----------------------------------------------------------------------------
(* C10: traversal and lookup *)

Position(v, it) == CHOOSE i \in 1..Len(v) : v[i] = it

SubtreeSize(it) ==
    IF it.kind = "Folder" THEN 1 + Cardinality(AllItems(it.items)) ELSE 1

\* The children of one parent, visited at position p (0 for the root), come
\* right after it, each followed by its own descendants, in child order.
ChildrenInPreOrder(v, c, p) ==
    /\ Len(c) >= 1 => Position(v, c[1].item) = p + 1
    /\ \A k \in 1..(Len(c) - 1) :
          Position(v, c[k + 1].item) = Position(v, c[k].item) + SubtreeSize(c[k].item)

PreOrder(v, items) ==
    /\ ChildrenInPreOrder(v, items, 0)
    /\ \A f \in FoldersOf(items) : ChildrenInPreOrder(v, f.items, Position(v, f))

FirstMatch(v, cond) ==
    LET hits == {i \in 1..Len(v) : Satisfies(cond, v[i])} IN
    IF hits = {} THEN None ELSE Some(v[KthSmallest(hits, 1)])

\* C10: traverse_items hands the callback every item below the root exactly
\* once and never the root, in depth-first pre-order along each parent's
\* child order; find_item returns the first item of that order satisfying
\* the condition, None if there is none.
C10_TraverseAndFind ==
    /\ last.op = "traverse_items" =>
          /\ {last.ret[i] : i \in 1..Len(last.ret)} = AllItems(tree.items)
          /\ Len(last.ret) = Cardinality(AllItems(tree.items))
          /\ \A i \in 1..Len(last.ret) : last.ret[i].id # RootId
          /\ PreOrder(last.ret, tree.items)
    /\ last.op = "find_item" =>
          last.ret = FirstMatch(traverse_items(tree), last.arg)

\* A traversal through a folder inside a folder, with files on both levels.
C10_Witness ==
    /\ last.op = "traverse_items"
    /\ Len(last.ret) >= 5
    /\ \E i, j, k \in 1..Len(last.ret) :
          /\ i < j /\ j < k
          /\ last.ret[i].kind = "Folder"
          /\ last.ret[j].kind = "Folder"
          /\ last.ret[j].path = last.ret[i].path \o <<"/">> \o last.ret[j].name
          /\ last.ret[k].kind = "File"
          /\ Len(Components(last.ret[k].path)) = 1

====
